---- MODULE Spec2Model ----
(***************************************************************************)
(* Model of src/src/index.ts: the background tone analyser                 *)
(* suggestBackground and the colour mapping of                             *)
(* chooseFmpSymbolBackgroundColor / chooseFmpSymbolBackgroundColorBrowser. *)
(*                                                                         *)
(* Numbers.  Lightness is a real in [0,1] in the source.  Here a lightness *)
(* is kept exactly as a rational [num, den] in lowest terms; the square    *)
(* root of perceivedLightness is taken to a resolution of 1/LightnessUnit  *)
(* (exact for every grey r = g = b).  0.58, 0.42, 0.3, 0.1 are the decimal *)
(* fractions 58/100, 42/100, 3/10, 1/10.                                   *)
(***************************************************************************)
EXTENDS Integers, Sequences, FiniteSets, TLC

VARIABLES image, options, result, chosen, memo

vars == <<image, options, result, chosen, memo>>

\* ---------------------------------------------------------------- bounds
MaxWidth == 3

MaxHeight == 2

\* ------------------------------------------------------------- rationals
RECURSIVE GCD(_, _)
GCD(a, b) == IF b = 0 THEN a ELSE GCD(b, a % b)

Abs(n) == IF n < 0 THEN -n ELSE n

\* n/d in lowest terms, d > 0
Rat(n, d) ==
  LET s == IF d < 0 THEN -1 ELSE 1
      g == GCD(Abs(n), Abs(d))
  IN  [num |-> (s * n) \div g, den |-> (s * d) \div g]

RatLess(a, b) == a.num * b.den < b.num * a.den

RatLeq(a, b) == a.num * b.den <= b.num * a.den

RatSub(a, b) == Rat(a.num * b.den - b.num * a.den, a.den * b.den)

RatDiv(a, b) == Rat(a.num * b.den, a.den * b.num)

RatMin(a, b) == IF RatLess(b, a) THEN b ELSE a

RatMax(a, b) == IF RatLess(a, b) THEN b ELSE a

Zero == Rat(0, 1)

One == Rat(1, 1)

\* floor(n * q) for a natural n and a rational q >= 0: Math.floor(width * edgeSampleRatio)
FloorMul(n, q) == (n * q.num) \div q.den

\* ------------------------------------------------------------- constants
ByteMax == 255

DefaultAlphaThreshold == 16

DefaultIgnorePureWhite == TRUE

DefaultIgnorePureBlack == FALSE

DefaultEdgeSampleRatio == Rat(4, 10)

LightThreshold == Rat(58, 100)

DarkThreshold == Rat(42, 100)

ConfidenceSpan == Rat(42, 100)

EdgeConfidence == Rat(3, 10)

NoEdgeConfidence == Rat(1, 10)

None == [kind |-> "none"]

\* ---------------------------------------------------- perceived lightness
\* floor(sqrt(n)) by bisection on [lo, hi], given lo^2 <= n < (hi+1)^2
RECURSIVE ISqrtIn(_, _, _)
ISqrtIn(n, lo, hi) ==
  IF lo >= hi THEN lo
  ELSE LET mid == (lo + hi + 1) \div 2
       IN  IF mid * mid <= n THEN ISqrtIn(n, mid, hi) ELSE ISqrtIn(n, lo, mid - 1)

Least(r, g, b) == IF r <= g /\ r <= b THEN r ELSE IF g <= b THEN g ELSE b

Greatest(r, g, b) == IF r >= g /\ r >= b THEN r ELSE IF g >= b THEN g ELSE b

\* a lightness of 1 is LightnessUnit fixed-point steps
LightnessUnit == 10 * ByteMax

\* Math.sqrt(0.299 r^2 + 0.587 g^2 + 0.114 b^2) / 255 as a count of 1/LightnessUnit:
\* floor(10 * sqrt((299 r^2 + 587 g^2 + 114 b^2) / 1000)); the weights sum to 1, so
\* the root lies between the least and the greatest channel
perceivedLightness(r, g, b) ==
  ISqrtIn((299 * r * r + 587 * g * g + 114 * b * b) \div 10,
          10 * Least(r, g, b), 10 * Greatest(r, g, b))

\* ------------------------------------------------------------------ bitmap
\* RGBAPixel as <<r, g, b, a>>
Transparent == <<0, 0, 0, 0>>

White == <<255, 255, 255, 255>>

Black == <<0, 0, 0, 255>>

MidGrey == <<128, 128, 128, 255>>

LightGrey == <<240, 240, 240, 255>>

DarkGrey == <<10, 10, 10, 255>>

FaintRed == <<255, 0, 0, 10>>

Palette == {Transparent, White, Black, MidGrey, LightGrey, DarkGrey, FaintRed}

\* the row-major RGBA byte buffer of a sequence of pixels (makeImage of the tests)
DataOf(pixels) ==
  [i \in 1..(4 * Len(pixels)) |-> pixels[((i - 1) \div 4) + 1][((i - 1) % 4) + 1]]

\* n pixels of colour base, pixels p1 and p2 repainted ink (position 0 repaints nothing)
Painted(n, base, ink, p1, p2) ==
  [i \in 1..n |-> IF i = p1 \/ i = p2 THEN ink ELSE base]

ImagesOfShape(w, h) ==
  { [width |-> w, height |-> h, data |-> DataOf(Painted(w * h, base, ink, p1, p2))] :
      base \in Palette, ink \in Palette, p1 \in 0..(w * h), p2 \in 0..(w * h) }

\* ImageLike values: well-formed bitmaps, data.length = width * height * 4
Images == UNION { ImagesOfShape(w, h) : w \in 0..MaxWidth, h \in 0..MaxHeight }

\* data[idx] of the 0-based Uint8Array
Byte(data, idx) == data[idx + 1]

\* ----------------------------------------------------------------- options
\* SuggestionOptions: every field optional; a record holding the fields given
EmptyOptions == [f \in {} |-> 0]

AlphaThresholdChoices == {EmptyOptions, [alphaThreshold |-> 0]}

IgnorePureWhiteChoices == {EmptyOptions, [ignorePureWhite |-> FALSE]}

IgnorePureBlackChoices == {EmptyOptions, [ignorePureBlack |-> TRUE]}

EdgeSampleRatioChoices ==
  {EmptyOptions, [edgeSampleRatio |-> Rat(1, 2)], [edgeSampleRatio |-> Rat(3, 4)],
   [edgeSampleRatio |-> Rat(1, 1)]}

OptionsSet ==
  { a @@ w @@ b @@ e : a \in AlphaThresholdChoices, w \in IgnorePureWhiteChoices,
                       b \in IgnorePureBlackChoices, e \in EdgeSampleRatioChoices }

\* destructuring with a default: const { field = default } = record
Field(record, field, default) ==
  IF field \in DOMAIN record THEN record[field] ELSE default

Destructure(opts) ==
  [alphaThreshold  |-> Field(opts, "alphaThreshold", DefaultAlphaThreshold),
   ignorePureWhite |-> Field(opts, "ignorePureWhite", DefaultIgnorePureWhite),
   ignorePureBlack |-> Field(opts, "ignorePureBlack", DefaultIgnorePureBlack),
   edgeSampleRatio |-> Field(opts, "edgeSampleRatio", DefaultEdgeSampleRatio)]

\* --------------------------------------------------------- suggestBackground
\* mutant: fgCount lives outside the function and is not reset between calls
Pass1StartStale ==
  [fgCount |-> IF result = None THEN 0 ELSE result.foregroundSampled,
   accumLightness |-> 0, pureWhiteIgnored |-> 0, pureBlackIgnored |-> 0]

\* let fgCount = 0, accumLightness = 0, pureWhiteIgnored = 0, pureBlackIgnored = 0
Pass1Start == [fgCount |-> 0, accumLightness |-> 0, pureWhiteIgnored |-> 0, pureBlackIgnored |-> 0]

\* mutant: a pixel whose alpha equals the threshold is skipped (a <= alphaThreshold)
Pass1BodyStrictAlpha(img, cfg, y, x, acc) ==
  LET idx == (y * img.width + x) * 4
      a == Byte(img.data, idx + 3)
      r == Byte(img.data, idx)
      g == Byte(img.data, idx + 1)
      b == Byte(img.data, idx + 2)
  IN  IF a <= cfg.alphaThreshold THEN acc
      ELSE IF cfg.ignorePureWhite /\ r = 255 /\ g = 255 /\ b = 255
        THEN [acc EXCEPT !.pureWhiteIgnored = @ + 1]
      ELSE IF cfg.ignorePureBlack /\ r = 0 /\ g = 0 /\ b = 0
        THEN [acc EXCEPT !.pureBlackIgnored = @ + 1]
      ELSE [acc EXCEPT !.accumLightness = @ + perceivedLightness(r, g, b),
                       !.fgCount = @ + 1]

\* mutant: the ignorePureBlack test is missing
Pass1BodyKeepsBlack(img, cfg, y, x, acc) ==
  LET idx == (y * img.width + x) * 4
      a == Byte(img.data, idx + 3)
      r == Byte(img.data, idx)
      g == Byte(img.data, idx + 1)
      b == Byte(img.data, idx + 2)
  IN  IF a < cfg.alphaThreshold THEN acc
      ELSE IF cfg.ignorePureWhite /\ r = 255 /\ g = 255 /\ b = 255
        THEN [acc EXCEPT !.pureWhiteIgnored = @ + 1]
      ELSE [acc EXCEPT !.accumLightness = @ + perceivedLightness(r, g, b),
                       !.fgCount = @ + 1]

\* one iteration of the body of the pass 1 loops, at pixel (x, y)
Pass1Body(img, cfg, y, x, acc) ==
  LET idx == (y * img.width + x) * 4
      a == Byte(img.data, idx + 3)
      r == Byte(img.data, idx)
      g == Byte(img.data, idx + 1)
      b == Byte(img.data, idx + 2)
  IN  IF a < cfg.alphaThreshold THEN acc
      ELSE IF cfg.ignorePureWhite /\ r = 255 /\ g = 255 /\ b = 255
        THEN [acc EXCEPT !.pureWhiteIgnored = @ + 1]
      ELSE IF cfg.ignorePureBlack /\ r = 0 /\ g = 0 /\ b = 0
        THEN [acc EXCEPT !.pureBlackIgnored = @ + 1]
      ELSE [acc EXCEPT !.accumLightness = @ + perceivedLightness(r, g, b),
                       !.fgCount = @ + 1]

\* for (y ...) for (x ...): the loops from position (x, y) on
RECURSIVE Pass1(_, _, _, _, _)
Pass1(img, cfg, y, x, acc) ==
  IF ~(y < img.height) THEN acc
  ELSE IF ~(x < img.width) THEN Pass1(img, cfg, y + 1, 0, acc)
  ELSE Pass1(img, cfg, y, x + 1, Pass1Body(img, cfg, y, x, acc))

EdgeStart == [edgeOpaque |-> 0, edgeLightAccum |-> 0]

\* mutant: the far band is one pixel short (i > size - band)
InBandShort(i, size, band) == i < band \/ i > size - band

\* y < edgeBandY || y >= height - edgeBandY
InBand(i, size, band) == i < band \/ i >= size - band

\* mutant: the edge sample applies the pure-white / pure-black exclusions of pass 1
EdgeBodyExcluding(img, cfg, edgeBandX, edgeBandY, y, x, acc) ==
  LET inYBand == InBand(y, img.height, edgeBandY)
      inXBand == InBand(x, img.width, edgeBandX)
      idx == (y * img.width + x) * 4
      a == Byte(img.data, idx + 3)
      r == Byte(img.data, idx)
      g == Byte(img.data, idx + 1)
      b == Byte(img.data, idx + 2)
  IN  IF ~(inYBand \/ inXBand) THEN acc
      ELSE IF a < cfg.alphaThreshold THEN acc
      ELSE IF cfg.ignorePureWhite /\ r = 255 /\ g = 255 /\ b = 255 THEN acc
      ELSE IF cfg.ignorePureBlack /\ r = 0 /\ g = 0 /\ b = 0 THEN acc
      ELSE [acc EXCEPT !.edgeLightAccum = @ + perceivedLightness(r, g, b),
                       !.edgeOpaque = @ + 1]

\* one iteration of the body of the edge loops, at pixel (x, y)
EdgeBody(img, cfg, edgeBandX, edgeBandY, y, x, acc) ==
  LET inYBand == InBand(y, img.height, edgeBandY)
      inXBand == InBand(x, img.width, edgeBandX)
      idx == (y * img.width + x) * 4
      a == Byte(img.data, idx + 3)
      r == Byte(img.data, idx)
      g == Byte(img.data, idx + 1)
      b == Byte(img.data, idx + 2)
  IN  IF ~(inYBand \/ inXBand) THEN acc
      ELSE IF a < cfg.alphaThreshold THEN acc
      ELSE [acc EXCEPT !.edgeLightAccum = @ + perceivedLightness(r, g, b),
                       !.edgeOpaque = @ + 1]

RECURSIVE EdgePass(_, _, _, _, _, _, _)
EdgePass(img, cfg, edgeBandX, edgeBandY, y, x, acc) ==
  IF ~(y < img.height) THEN acc
  ELSE IF ~(x < img.width) THEN EdgePass(img, cfg, edgeBandX, edgeBandY, y + 1, 0, acc)
  ELSE EdgePass(img, cfg, edgeBandX, edgeBandY, y, x + 1,
                EdgeBody(img, cfg, edgeBandX, edgeBandY, y, x, acc))

\* mutant: the confidence reported in percent, clamped to [0, 100]
ClampPercent(confidence) ==
  RatMax(Zero, RatMin(Rat(100, 1), Rat(100 * confidence.num, confidence.den)))

\* Math.max(0, Math.min(1, confidence))
Clamp(confidence) == RatMax(Zero, RatMin(One, confidence))

\* mutant: the fallback recommends a light background
FallbackLight(totalPixels) ==
  [tone |-> "light", confidence |-> Zero, foregroundLightness |-> Zero,
   foregroundSampled |-> 0, totalSampled |-> totalPixels]

\* the fallback returned when nothing is foreground
Fallback(totalPixels) ==
  [tone |-> "dark", confidence |-> Zero, foregroundLightness |-> Zero,
   foregroundSampled |-> 0, totalSampled |-> totalPixels]

\* the ambiguous branch: tone and confidence from the edge sample
EdgeTiebreak(edge, avgLightness) ==
  IF edge.edgeOpaque > 0
    THEN LET edgeAvg == Rat(edge.edgeLightAccum, LightnessUnit * edge.edgeOpaque)
         IN  [tone |-> IF RatLess(avgLightness, edgeAvg) THEN "light" ELSE "dark",
              confidence |-> EdgeConfidence]
    ELSE [tone |-> "dark", confidence |-> NoEdgeConfidence]

\* mutant: the light branch scales by its own threshold, (avg - 0.58) / 0.58
DecideWrongSpan(img, cfg, edgeBandX, edgeBandY, avgLightness) ==
  IF RatLess(LightThreshold, avgLightness)
    THEN [tone |-> "dark",
          confidence |-> RatDiv(RatSub(avgLightness, LightThreshold), LightThreshold)]
  ELSE IF RatLess(avgLightness, DarkThreshold)
    THEN [tone |-> "light",
          confidence |-> RatDiv(RatSub(DarkThreshold, avgLightness), ConfidenceSpan)]
  ELSE EdgeTiebreak(EdgePass(img, cfg, edgeBandX, edgeBandY, 0, 0, EdgeStart), avgLightness)

\* the if / else if / else on avgLightness: tone and unclamped confidence
Decide(img, cfg, edgeBandX, edgeBandY, avgLightness) ==
  IF RatLess(LightThreshold, avgLightness)
    THEN [tone |-> "dark",
          confidence |-> RatDiv(RatSub(avgLightness, LightThreshold), ConfidenceSpan)]
  ELSE IF RatLess(avgLightness, DarkThreshold)
    THEN [tone |-> "light",
          confidence |-> RatDiv(RatSub(DarkThreshold, avgLightness), ConfidenceSpan)]
  ELSE EdgeTiebreak(EdgePass(img, cfg, edgeBandX, edgeBandY, 0, 0, EdgeStart), avgLightness)

\* mutant: the pixel count taken from the length of the byte buffer
TotalPixelsBytes(img) == Len(img.data)

\* const totalPixels = width * height
TotalPixels(img) == img.width * img.height

suggestBackground(img, opts) ==
  LET cfg == Destructure(opts)
      totalPixels == TotalPixels(img)
      edgeBandX == FloorMul(img.width, cfg.edgeSampleRatio)
      edgeBandY == FloorMul(img.height, cfg.edgeSampleRatio)
      p1 == Pass1(img, cfg, 0, 0, Pass1Start)
  IN  IF p1.fgCount = 0 THEN Fallback(totalPixels)
      ELSE LET avgLightness == Rat(p1.accumLightness, LightnessUnit * p1.fgCount)
               d == Decide(img, cfg, edgeBandX, edgeBandY, avgLightness)
           IN  [tone |-> d.tone,
                confidence |-> Clamp(d.confidence),
                foregroundLightness |-> avgLightness,
                foregroundSampled |-> p1.fgCount,
                totalSampled |-> totalPixels]

\* ------------------------------------------------------------ colour mapping
DefaultLightColor == "#FFFFFF"

DefaultDarkColor == "#111111"

DefaultMinConfidenceForUse == Zero

LightColorChoices == {EmptyOptions, [lightColor |-> "#EEEEEE"]}

DarkColorChoices == {EmptyOptions, [darkColor |-> "#222222"]}

MinConfidenceChoices ==
  {EmptyOptions, [minConfidenceForUse |-> Rat(1, 10)], [minConfidenceForUse |-> Rat(3, 10)],
   [minConfidenceForUse |-> Rat(1, 1)]}

FallbackColorChoices == {EmptyOptions, [fallbackColor |-> "#888888"]}

\* the colour fields of the config of the two chooseFmpSymbolBackgroundColor helpers
ColorConfigs ==
  { l @@ d @@ m @@ f : l \in LightColorChoices, d \in DarkColorChoices,
                       m \in MinConfidenceChoices, f \in FallbackColorChoices }

\* the ...opts of the config that reach suggestBackground
ColorOptions ==
  { o \in OptionsSet : "ignorePureBlack" \notin DOMAIN o /\ "alphaThreshold" \notin DOMAIN o }

\* mutant: the floor is exclusive (confidence > minConfidenceForUse)
DecidedStrictFloor(suggestion, config) ==
  LET lightColor == Field(config, "lightColor", DefaultLightColor)
      darkColor == Field(config, "darkColor", DefaultDarkColor)
      minConfidenceForUse == Field(config, "minConfidenceForUse", DefaultMinConfidenceForUse)
  IN  IF RatLess(minConfidenceForUse, suggestion.confidence)
        THEN (IF suggestion.tone = "dark" THEN darkColor ELSE lightColor)
        ELSE Field(config, "fallbackColor", lightColor)

\* const decided = confidence >= minConfidenceForUse
\*   ? (tone === 'dark' ? darkColor : lightColor) : (fallbackColor ?? lightColor)
Decided(suggestion, config) ==
  LET lightColor == Field(config, "lightColor", DefaultLightColor)
      darkColor == Field(config, "darkColor", DefaultDarkColor)
      minConfidenceForUse == Field(config, "minConfidenceForUse", DefaultMinConfidenceForUse)
  IN  IF RatLeq(minConfidenceForUse, suggestion.confidence)
        THEN (IF suggestion.tone = "dark" THEN darkColor ELSE lightColor)
        ELSE Field(config, "fallbackColor", lightColor)

\* ------------------------------------------------------------ state machine
\* image, options: the arguments of the call; result: what suggestBackground
\* returned (None while no call has returned); chosen: what a colour helper
\* returned or threw; memo: the first call of a sequence of calls, as observed
Init ==
  /\ image \in Images
  /\ options \in OptionsSet
  /\ result = None
  /\ chosen = None
  /\ memo = None

\* suggestBackground(image, options) runs and returns
Analyze ==
  /\ result = None
  /\ result' = suggestBackground(image, options)
  /\ UNCHANGED <<image, options, chosen, memo>>

Next == Analyze

Spec == Init /\ [][Next]_vars

\* ---- a sequence of calls on one bitmap, with any options each time
PureImages == {img \in Images : img.height <= 1}

PureOptions ==
  { o \in OptionsSet : "ignorePureBlack" \notin DOMAIN o /\
      ("edgeSampleRatio" \in DOMAIN o => o.edgeSampleRatio = Rat(1, 2)) }

InitPure ==
  /\ image \in PureImages
  /\ options = EmptyOptions
  /\ result = None
  /\ chosen = None
  /\ memo = None

\* one more call suggestBackground(image, opts); the observer keeps the first call,
\* the bitmap it saw then, and whether a call with other options came after it
Call(opts) ==
  /\ options' = opts
  /\ result' = suggestBackground(image, opts)
  /\ memo' = IF memo = None
               THEN [image |-> image, options |-> opts, result |-> result', between |-> FALSE]
               ELSE [memo EXCEPT !.between = @ \/ opts # memo.options]
  /\ UNCHANGED <<image, chosen>>

NextPure == \E opts \in PureOptions : Call(opts)

SpecPure == InitPure /\ [][NextPure]_vars

\* ---- one call of a colour helper on the logo the collaborators deliver
ColorImages == {img \in Images : img.height <= 1}

InitColor ==
  /\ image \in ColorImages
  /\ options = EmptyOptions
  /\ result = None
  /\ chosen = None
  /\ memo = None

\* chooseFmpSymbolBackgroundColor: the logo is fetched and decoded to image
ChooseNode(opts, config) ==
  /\ chosen = None
  /\ options' = opts
  /\ result' = suggestBackground(image, opts)
  /\ chosen' = [kind |-> "color", helper |-> "node", config |-> config,
                color |-> Decided(result', config), suggestion |-> result']
  /\ UNCHANGED <<image, memo>>

\* suggestFmpSymbolBackground throws when the response is not ok
ChooseNodeFetchFails ==
  /\ chosen = None
  /\ chosen' = [kind |-> "error", helper |-> "node", message |-> "Failed to fetch logo"]
  /\ UNCHANGED <<image, options, result, memo>>

\* chooseFmpSymbolBackgroundColorBrowser: the logo is drawn to a canvas read as image
ChooseBrowser(opts, config) ==
  /\ chosen = None
  /\ options' = opts
  /\ result' = suggestBackground(image, opts)
  /\ chosen' = [kind |-> "color", helper |-> "browser", config |-> config,
                color |-> Decided(result', config), suggestion |-> result']
  /\ UNCHANGED <<image, memo>>

BrowserFailures ==
  {"Failed to load image", "Canvas 2D context unavailable", "Canvas is tainted (CORS)"}

\* the image fails to load, the 2D context is missing, or getImageData throws
ChooseBrowserFails(message) ==
  /\ chosen = None
  /\ chosen' = [kind |-> "error", helper |-> "browser", message |-> message]
  /\ UNCHANGED <<image, options, result, memo>>

NextColor ==
  \/ \E opts \in ColorOptions, config \in ColorConfigs : ChooseNode(opts, config)
  \/ ChooseNodeFetchFails
  \/ \E opts \in ColorOptions, config \in ColorConfigs : ChooseBrowser(opts, config)
  \/ \E message \in BrowserFailures : ChooseBrowserFails(message)

SpecColor == InitColor /\ [][NextColor]_vars

\* ------------------------------------------------- the claims' vocabulary
\* the effective configuration of the call and the pixels of the bitmap, as sets
AlphaThreshold == Field(options, "alphaThreshold", DefaultAlphaThreshold)

IgnorePureWhite == Field(options, "ignorePureWhite", DefaultIgnorePureWhite)

IgnorePureBlack == Field(options, "ignorePureBlack", DefaultIgnorePureBlack)

EdgeSampleRatio == Field(options, "edgeSampleRatio", DefaultEdgeSampleRatio)

Config ==
  [alphaThreshold |-> AlphaThreshold, ignorePureWhite |-> IgnorePureWhite,
   ignorePureBlack |-> IgnorePureBlack, edgeSampleRatio |-> EdgeSampleRatio]

Returned == result # None

Pixels == 0..(image.width * image.height - 1)

Row(k) == k \div image.width

Col(k) == k % image.width

Red(k) == image.data[4 * k + 1]

Green(k) == image.data[4 * k + 2]

Blue(k) == image.data[4 * k + 3]

Alpha(k) == image.data[4 * k + 4]

PureWhite(k) == Red(k) = 255 /\ Green(k) = 255 /\ Blue(k) = 255

PureBlack(k) == Red(k) = 0 /\ Green(k) = 0 /\ Blue(k) = 0

Excluded(k) ==
  \/ IgnorePureWhite /\ PureWhite(k)
  \/ IgnorePureBlack /\ PureBlack(k)

\* the pixels that pass the alpha threshold
Opaque == LET t == AlphaThreshold IN {k \in Pixels : Alpha(k) >= t}

\* the foreground pixels of the spec's Step 1
Foreground ==
  LET w == IgnorePureWhite
      b == IgnorePureBlack
  IN  {k \in Opaque : ~((w /\ PureWhite(k)) \/ (b /\ PureBlack(k)))}

\* the sum of the lightness of the pixels of S among pixels 0..k
RECURSIVE SumLightnessTo(_, _)
SumLightnessTo(S, k) ==
  IF k < 0 THEN 0
  ELSE (IF k \in S THEN perceivedLightness(Red(k), Green(k), Blue(k)) ELSE 0)
       + SumLightnessTo(S, k - 1)

SumLightness(S) == SumLightnessTo(S, image.width * image.height - 1)

\* mean perceived lightness of a non-empty set of pixels
Mean(S) == Rat(SumLightness(S), LightnessUnit * Cardinality(S))

InAmbiguousBand(avg) == RatLeq(DarkThreshold, avg) /\ RatLeq(avg, LightThreshold)

Ambiguous == LET fg == Foreground IN fg # {} /\ InAmbiguousBand(Mean(fg))

Uniform(pixel) ==
  /\ Pixels # {}
  /\ \A k \in Pixels : <<Red(k), Green(k), Blue(k), Alpha(k)>> = pixel

\* ------------------------------------------------------------------ claims
\* C1: a call on a bitmap with no foreground pixel (zero-sized bitmaps included)
\* returns exactly tone dark, confidence 0, foregroundLightness 0,
\* foregroundSampled 0, totalSampled width*height.
C1_EmptyForegroundFallback ==
  (Returned /\ Foreground = {}) =>
    result = [tone |-> "dark", confidence |-> Zero, foregroundLightness |-> Zero,
              foregroundSampled |-> 0, totalSampled |-> image.width * image.height]

\* every pixel passes the alpha threshold and every pixel is excluded
C1_Witness ==
  /\ Returned
  /\ Pixels # {}
  /\ Opaque = Pixels
  /\ Foreground = {}
  /\ result.tone = "dark"
  /\ result.totalSampled = image.width * image.height

\* C2: with at least one foreground pixel and avg their mean lightness, avg > 0.58
\* gives tone dark and confidence (avg - 0.58)/0.42, avg < 0.42 gives tone light and
\* confidence (0.42 - avg)/0.42, and foregroundLightness is avg; an opaque image
\* uniformly (240,240,240) with ignorePureWhite false gives dark, one uniformly
\* (10,10,10) gives light.
C2_ClearDecision ==
  Returned =>
    LET fg == Foreground
        avg == Mean(fg)
    IN  fg # {} =>
          /\ RatLess(Rat(58, 100), avg) =>
               /\ result.tone = "dark"
               /\ result.confidence = RatDiv(RatSub(avg, Rat(58, 100)), Rat(42, 100))
               /\ result.foregroundLightness = avg
          /\ RatLess(avg, Rat(42, 100)) =>
               /\ result.tone = "light"
               /\ result.confidence = RatDiv(RatSub(Rat(42, 100), avg), Rat(42, 100))
               /\ result.foregroundLightness = avg
          /\ (Uniform(LightGrey) /\ ~IgnorePureWhite) => result.tone = "dark"
          /\ Uniform(DarkGrey) => result.tone = "light"

\* the first test of the suite: 2x2, uniformly (240,240,240,255), ignorePureWhite false
C2_Witness ==
  /\ Returned
  /\ Uniform(LightGrey)
  /\ image.width = 2 /\ image.height = 2
  /\ ~IgnorePureWhite
  /\ result.tone = "dark"
  /\ result.confidence = Rat(307, 357)

\* C3: foregroundSampled is the number of pixels with alpha >= alphaThreshold that
\* are neither pure white under ignorePureWhite nor pure black under
\* ignorePureBlack; pixels below the alpha threshold are never counted.
C3_ForegroundSampledCount ==
  Returned => result.foregroundSampled = Cardinality(Foreground)

\* the third test of the suite: 2x2, two pixels below the threshold, two counted
C3_Witness ==
  /\ Returned
  /\ image.width = 2 /\ image.height = 2
  /\ Cardinality(Pixels \ Opaque) = 2
  /\ result.foregroundSampled = 2

\* C4: on every return path totalSampled is width*height, whatever the options.
C4_TotalSampled ==
  Returned => result.totalSampled = image.width * image.height

\* the ambiguous path, with fewer foreground pixels than pixels
C4_Witness ==
  /\ Returned
  /\ Ambiguous
  /\ result.foregroundSampled < result.totalSampled
  /\ result.totalSampled = 6

\* C5: the returned confidence lies in [0, 1], for every configuration.
C5_ConfidenceInUnitInterval ==
  Returned => (RatLeq(Zero, result.confidence) /\ RatLeq(result.confidence, One))

\* confidence 1 with alphaThreshold 0
C5_Witness ==
  /\ Returned
  /\ AlphaThreshold = 0
  /\ result.confidence = One

\* the image of the same size with every pixel opaque black
AllBlack == [image EXCEPT !.data = DataOf([i \in 1..(image.width * image.height) |-> Black])]

\* the options with the values of ignorePureWhite and ignorePureBlack exchanged
FlagsSwapped ==
  [alphaThreshold |-> AlphaThreshold, edgeSampleRatio |-> EdgeSampleRatio,
   ignorePureWhite |-> IgnorePureBlack, ignorePureBlack |-> IgnorePureWhite]

Opposite(tone) == IF tone = "dark" THEN "light" ELSE "dark"

\* C6 as stated: for every pair of flags the tone for an opaque all-white bitmap is
\* the opposite of the tone for the all-black bitmap of the same size analysed
\* with the two flags exchanged.
C6_MirroredTones ==
  (Returned /\ Uniform(White)) =>
    result.tone = Opposite(suggestBackground(AllBlack, FlagsSwapped).tone)

\* C6 amended: the tones are opposite (dark for white, light for black) when
\* ignorePureWhite is false for the white bitmap; when it is true both calls find
\* no foreground and both return the fallback tone dark with confidence 0.
C6_MirroredUnlessIgnored ==
  (Returned /\ Uniform(White)) =>
    LET mirror == suggestBackground(AllBlack, FlagsSwapped)
    IN  IF IgnorePureWhite
          THEN /\ result.tone = "dark" /\ result.confidence = Zero
               /\ mirror.tone = "dark" /\ mirror.confidence = Zero
          ELSE /\ result.tone = "dark"
               /\ mirror.tone = "light"
               /\ result.tone = Opposite(mirror.tone)

\* white kept, black ignored on the white side; mirrored: black kept
C6_Witness ==
  /\ Returned
  /\ Uniform(White)
  /\ ~IgnorePureWhite
  /\ IgnorePureBlack
  /\ result.tone = "dark"
  /\ suggestBackground(AllBlack, FlagsSwapped).tone = "light"

\* the edge bands of the call, as sets of rows and columns
BandY == FloorMul(image.height, EdgeSampleRatio)

BandX == FloorMul(image.width, EdgeSampleRatio)

OuterRows == (0..(BandY - 1)) \cup ((image.height - BandY)..(image.height - 1))

OuterCols == (0..(BandX - 1)) \cup ((image.width - BandX)..(image.width - 1))

EdgePixels ==
  LET rows == OuterRows
      cols == OuterCols
  IN  {k \in Pixels : Row(k) \in rows \/ Col(k) \in cols}

EdgeSample == EdgePixels \cap Opaque

EdgeAccumulated == EdgePass(image, Config, BandX, BandY, 0, 0, EdgeStart)

Pass1Accumulated == Pass1(image, Config, 0, 0, Pass1Start)

\* C10 as stated: for 0.5 <= edgeSampleRatio <= 1 the edge bands cover the whole
\* image and the tiebreak's edge sample is the pass 1 foreground
\* (edgeOpaque = foregroundSampled, edgeAvg = avg).
C10_EdgeSampleIsForeground ==
  (Returned /\ RatLeq(Rat(1, 2), EdgeSampleRatio) /\ Ambiguous) =>
    /\ EdgePixels = Pixels
    /\ EdgeAccumulated.edgeOpaque = result.foregroundSampled
    /\ EdgeAccumulated.edgeLightAccum = Pass1Accumulated.accumLightness

BandsCover == 2 * BandX >= image.width \/ 2 * BandY >= image.height

\* C10 amended: for 0.5 <= edgeSampleRatio <= 1 the bands cover the whole image
\* when 2*floor(width*ratio) >= width or 2*floor(height*ratio) >= height;
\* the edge sample is then every pixel with alpha >= alphaThreshold, and it is the
\* pass 1 foreground (edgeOpaque = foregroundSampled, edgeAvg = avg, so tone dark
\* with confidence 0.3) when none of those pixels is excluded by the ignore flags.
C10_EdgeSampleWhenCovered ==
  (Returned /\ RatLeq(Rat(1, 2), EdgeSampleRatio) /\ Ambiguous) =>
    LET cover == BandsCover
        opaque == Opaque
        edge == EdgeAccumulated
    IN  cover =>
             /\ EdgePixels = Pixels
             /\ edge.edgeOpaque = Cardinality(opaque)
             /\ edge.edgeLightAccum = SumLightness(opaque)
             /\ (\A k \in opaque : ~Excluded(k)) =>
                  /\ edge.edgeOpaque = result.foregroundSampled
                  /\ edge.edgeLightAccum = Pass1Accumulated.accumLightness
                  /\ result.tone = "dark"
                  /\ result.confidence = Rat(3, 10)

\* 2x2 at ratio 0.5: the bands cover the image, some pixel is below the alpha
\* threshold and no pixel is excluded
C10_Witness ==
  /\ Returned
  /\ Ambiguous
  /\ EdgeSampleRatio = Rat(1, 2)
  /\ image.width = 2 /\ image.height = 2
  /\ BandsCover
  /\ Opaque # Pixels
  /\ \A k \in Opaque : ~Excluded(k)
  /\ EdgeAccumulated.edgeOpaque = result.foregroundSampled
  /\ result.confidence = Rat(3, 10)

C8_ColorMapping ==
  chosen.kind = "color" =>
    LET suggestion == chosen.suggestion
        lightColor == IF "lightColor" \in DOMAIN chosen.config
                        THEN chosen.config.lightColor ELSE "#FFFFFF"
        darkColor == IF "darkColor" \in DOMAIN chosen.config
                       THEN chosen.config.darkColor ELSE "#111111"
        floor == IF "minConfidenceForUse" \in DOMAIN chosen.config
                   THEN chosen.config.minConfidenceForUse ELSE Zero
        fallback == IF "fallbackColor" \in DOMAIN chosen.config
                      THEN chosen.config.fallbackColor ELSE lightColor
        toneColor == IF suggestion.tone = "dark" THEN darkColor ELSE lightColor
    IN  /\ suggestion = result
        /\ suggestion.tone \in {"dark", "light"}
        /\ RatLeq(floor, suggestion.confidence) => chosen.color = toneColor
        /\ RatLess(suggestion.confidence, floor) => chosen.color = fallback
        /\ "minConfidenceForUse" \notin DOMAIN chosen.config => chosen.color = toneColor

\* below the floor with no fallbackColor given: lightColor although the tone is dark
C8_Witness ==
  /\ chosen.kind = "color"
  /\ chosen.helper = "browser"
  /\ "minConfidenceForUse" \in DOMAIN chosen.config
  /\ "fallbackColor" \notin DOMAIN chosen.config
  /\ RatLess(chosen.suggestion.confidence, chosen.config.minConfidenceForUse)
  /\ chosen.suggestion.tone = "dark"
  /\ chosen.color = "#FFFFFF"

\* the pixels of the outermost rows and columns of the image
Border ==
  {k \in Pixels : Row(k) = 0 \/ Row(k) = image.height - 1 \/
                  Col(k) = 0 \/ Col(k) = image.width - 1}

\* C11: in the ambiguous band confidence 0.1 is returned only when the edge of the
\* image is entirely transparent: for width >= 1, height >= 1 and every
\* edgeSampleRatio in (0,1], if avg is in [0.42, 0.58] and some pixel of the
\* outermost row or column has alpha >= alphaThreshold, the confidence is 0.3
\* (small images whose floor(width*ratio) or floor(height*ratio) is 0 included).
C11_LowConfidenceOnlyIfEdgeTransparent ==
  (Returned /\ image.width >= 1 /\ image.height >= 1 /\ Ambiguous
     /\ Border \cap Opaque # {}) =>
    /\ result.confidence = Rat(3, 10)
    /\ result.confidence # Rat(1, 10)

====
